---- MODULE Spec2Model ----
(***************************************************************************)
(* Model of consumers/gcpconsumer.go: the GCP pub/sub log worker.          *)
(*                                                                         *)
(* One GCPInfo object (built by NewGCPclient) runs Consume.  Consume opens *)
(* the message log file, wraps it in a bufio.Writer and calls              *)
(* Subscription.Receive with a handler; the pub/sub library runs the       *)
(* handler on concurrent goroutines, one invocation per delivered message. *)
(* Each invocation locks mu, appends the message to batch and calls Flush  *)
(* when the batch has grown past int(Batchsize).                           *)
(*                                                                         *)
(* A delivered message (a pubsub.Message) is a number of 1..MaxDeliveries;  *)
(* the d-th delivery carries the payload PayloadOf(d).  Bytes are strings   *)
(* of length one; the file and the writer's buffer are sequences of bytes. *)
(* bufio.Writer is followed line by line: a WriteString buffers its line,  *)
(* or first writes the buffered lines through to the file, or fails and    *)
(* leaves the writer's error set for good.                                 *)
(*                                                                         *)
(* acks, nacks, wok, wfail, lockOrder, wlog, acklog, sinceFlush, wflushes, *)
(* fileAtOpen, wlogAtOpen, batchAtOpen, acquired, config and pre record    *)
(* what happened; no step reads them.                                      *)
(***************************************************************************)
EXTENDS Integers, Sequences, FiniteSets, TLC

\* ------------------------------------------------------------------ bounds
\* number of messages the source delivers over the whole run
MaxDeliveries == 3
\* number of times Consume is called on the GCPInfo
MaxSessions == 2
\* number of times the caller calls Flush itself
MaxDirectCalls == 2

Deliveries == 1..MaxDeliveries
\* goroutines that run Flush: the handler invocation of each delivery, and 0, a
\* caller that calls the exported method Flush itself
Threads == 0..MaxDeliveries

\* payloads (msg.Data) of the messages the source delivers, in delivery order and
\* repeating: a one-byte payload, another one, and the empty payload
Payloads == <<(<<"a">>), (<<"b">>), (<<>>)>>
PayloadOf(d) == Payloads[((d - 1) % Len(Payloads)) + 1]

\* config files: "batchsize" as a float32 counted in halves, and "maxwaitmin".
\* batchsize unset or 0 with maxwaitmin unset or 0; 0.5 with 1; 1.5 with 0; 2.0
\* with 1; -0.5 with 0; -1.0 with 1
Configs == {[batchsize |-> 0, maxwaitmin |-> 0], [batchsize |-> 1, maxwaitmin |-> 1],
            [batchsize |-> 3, maxwaitmin |-> 0], [batchsize |-> 4, maxwaitmin |-> 1],
            [batchsize |-> -1, maxwaitmin |-> 0], [batchsize |-> -2, maxwaitmin |-> 1]}

\* ------------------------------------------------------------ NewGCPclient
\* a float32 counted in halves
Float(n) == 2 * n

\* Go's int(f) of a float32: truncation toward zero
IntOf(f) == IF f >= 0 THEN f \div 2 ELSE -((-f) \div 2)

\* make([]*pubsub.Message, 0, int(gcpinfo.Worker.Batchsize)) panics when the
\* capacity is negative: NewGCPclient returns a GCPInfo only when it is not
MakeReturns(cfg) == IntOf(cfg) >= 0

\* mutant: the default batch size is not applied
NoDefaultBatchsize(cfg) == cfg

\* gcpinfo.Worker.Batchsize after NewGCPclient: 3 when the config gives 0
DefaultBatchsize(cfg) == IF cfg = 0 THEN Float(3) ELSE cfg

\* gcpinfo.Worker.Maxwaittime after NewGCPclient: 10 when the config gives 0
DefaultMaxwaittime(cfg) == IF cfg = 0 THEN 10 ELSE cfg

VARIABLES
    config,      \* the "batchsize" and "maxwaitmin" NewGCPclient read from the config file
    Batchsize,   \* gcpinfo.Worker.Batchsize (in halves)
    Maxwaittime, \* gcpinfo.Worker.Maxwaittime
    cpc,         \* where Consume is: "idle", "newclient", "openfile", "receive", "return", "done"
    ret,         \* what the last Consume call returned: "none", "nil", or an error
    session,     \* number of Consume calls started so far
    ctxDone,     \* cctx is done: the timeout of Maxwaittime minutes has fired
    rerr,        \* the pub/sub service reported a non-retryable error to Receive
    fileOpen,    \* the *os.File of this session is open
    closes,      \* number of file.Close() calls of this session
    file,        \* bytes appended to the message log file so far
    wbuf,        \* bytes buffered in gcpinfo.writer, not yet in the file
    werr,        \* gcpinfo.writer's sticky error (bufio.Writer.err # nil)
    mu,          \* gcpinfo.mu: 0 when free, else the handler invocation that locked it
    batch,       \* gcpinfo.batch
    hpc,         \* per delivery: where its handler invocation is
    tmp,         \* per handler: the slice read by append before it stores the result
    rng,         \* per handler: the slice Flush's range loop iterates over
    idx,         \* per handler: position of Flush's range loop
    res,         \* per handler: err of the last WriteString, "ok" or "fail"
    data,        \* per delivery: msg.Data
    acks,        \* per delivery: number of msg.Ack() calls
    nacks,       \* per delivery: number of msg.Nack() calls
    wok,         \* per delivery: number of WriteString calls that returned nil
    wfail,       \* per delivery: number of WriteString calls that returned an error
    lockOrder,   \* handler invocations in the order they acquired mu
    wlog,        \* deliveries in the order their WriteString succeeded
    acklog,      \* deliveries in the order of their msg.Ack() calls
    sinceFlush,  \* appends since the last Flush call returned
    wflushes,    \* per handler: number of gcpinfo.writer.Flush() calls it made
    fileAtOpen,  \* the file's bytes when this session opened it
    wlogAtOpen,  \* Len(wlog) when this session opened the file
    batchAtOpen, \* gcpinfo.batch when this session opened the file
    acquired,    \* what the last Consume call acquired: client created, file opened, Close calls
    pre          \* per direct call of Flush: the state it started from

vars == <<config, Batchsize, Maxwaittime, cpc, ret, session, ctxDone, rerr, fileOpen, closes,
          file, wbuf, werr, mu, batch, hpc, tmp, rng, idx, res, data, acks, nacks,
          wok, wfail, lockOrder, wlog, acklog, sinceFlush, wflushes,
          fileAtOpen, wlogAtOpen, batchAtOpen,
          acquired, pre>>

\* the configuration and the record of the direct Flush calls: no step of Consume
\* or of the handler changes them
otherVars == <<config, Batchsize, Maxwaittime, pre>>
consumeVars == <<cpc, ret, session, ctxDone, rerr, fileOpen, closes,
                 fileAtOpen, wlogAtOpen, batchAtOpen,
                 acquired>>
sinkVars == <<file, wbuf, werr>>
outcomeVars == <<acks, nacks, wok, wfail, wlog, acklog>>
flushVars == <<rng, idx, res, wflushes>>

\* the threshold the handler compares against: int(gcpinfo.Worker.Batchsize)
Threshold == IntOf(Batchsize)

\* string(msg.Data) + "\n"
Line(d) == data[d] \o <<"\n">>

\* handler positions between mu.Lock() and mu.Unlock()
Critical == {"append_read", "append_write", "check", "flush_write", "flush_outcome",
             "flush_writer", "flush_reset", "unlock"}
\* handler positions inside Flush
InFlush == {"flush_write", "flush_outcome", "flush_writer", "flush_reset"}

InFlight(d) == hpc[d] \notin {"none", "done"}

\* ---------------------------------------------------------------- Init
\* the state after NewGCPclient returned the GCPInfo
Init ==
    /\ \E cfg \in Configs :
          /\ MakeReturns(cfg.batchsize)
          /\ config = cfg
          /\ Batchsize = DefaultBatchsize(cfg.batchsize)
          /\ Maxwaittime = DefaultMaxwaittime(cfg.maxwaitmin)
    /\ cpc = "idle"
    /\ ret = "none"
    /\ session = 0
    /\ ctxDone = FALSE
    /\ rerr = FALSE
    /\ fileOpen = FALSE
    /\ closes = 0
    /\ file = <<>>
    /\ wbuf = <<>>
    /\ werr = FALSE
    /\ mu = 0
    /\ batch = <<>>
    /\ hpc = [t \in Threads |-> "none"]
    /\ tmp = [t \in Threads |-> <<>>]
    /\ rng = [t \in Threads |-> <<>>]
    /\ idx = [t \in Threads |-> 0]
    /\ res = [t \in Threads |-> "ok"]
    /\ data = [d \in Deliveries |-> <<>>]
    /\ acks = [d \in Deliveries |-> 0]
    /\ nacks = [d \in Deliveries |-> 0]
    /\ wok = [d \in Deliveries |-> 0]
    /\ wfail = [d \in Deliveries |-> 0]
    /\ lockOrder = <<>>
    /\ wlog = <<>>
    /\ acklog = <<>>
    /\ sinceFlush = 0
    /\ wflushes = [t \in Threads |-> 0]
    /\ fileAtOpen = <<>>
    /\ wlogAtOpen = 0
    /\ batchAtOpen = <<>>
    /\ acquired = [client |-> FALSE, file |-> FALSE, closes |-> 0]
    /\ pre = <<>>

\* ---------------------------------------------------------------- Consume
\* a caller invokes gcpinfo.Consume(): the first call, or a further call on the
\* same GCPInfo after the previous one returned (the caller runs its sessions
\* first and calls Flush itself, if it does, after the last of them)
ConsumeCall ==
    /\ cpc \in {"idle", "done"}
    /\ hpc[0] = "none"
    /\ session < MaxSessions
    /\ cpc' = "newclient"
    /\ session' = session + 1
    /\ ret' = "none"
    /\ acquired' = [client |-> FALSE, file |-> FALSE, closes |-> 0]
    /\ UNCHANGED <<ctxDone, rerr, fileOpen, closes, fileAtOpen, wlogAtOpen, batchAtOpen>>
    /\ UNCHANGED <<otherVars, sinkVars, mu, batch, hpc, tmp, flushVars, data, outcomeVars,
                   lockOrder, sinceFlush>>

\* pubsub.NewClient: on an error Consume returns it.  Consume has no
\* client.Close(): a client it created stays open
NewClient ==
    /\ cpc = "newclient"
    /\ \/ /\ cpc' = "openfile"
          /\ ret' = ret
          /\ acquired' = [acquired EXCEPT !.client = TRUE]
       \/ /\ cpc' = "done"
          /\ ret' = "err_client"
          /\ acquired' = acquired
    /\ UNCHANGED <<session, ctxDone, rerr, fileOpen, closes,
                   fileAtOpen, wlogAtOpen, batchAtOpen>>
    /\ UNCHANGED <<otherVars, sinkVars, mu, batch, hpc, tmp, flushVars, data, outcomeVars,
                   lockOrder, sinceFlush>>

\* os.OpenFile (append mode); on success defer file.Close(), bufio.NewWriter(file),
\* context.WithTimeout, defer cancel(), and Receive starts
OpenFile ==
    /\ cpc = "openfile"
    /\ \/ /\ cpc' = "receive"
          /\ ret' = ret
          /\ fileOpen' = TRUE
          /\ closes' = 0
          /\ wbuf' = <<>>
          /\ werr' = FALSE
          /\ ctxDone' = FALSE
          /\ rerr' = FALSE
          /\ fileAtOpen' = file
          /\ wlogAtOpen' = Len(wlog)
          /\ batchAtOpen' = batch
          /\ acquired' = [acquired EXCEPT !.file = TRUE]
       \/ /\ cpc' = "done"
          /\ ret' = "err_open"
          /\ UNCHANGED <<fileOpen, closes, wbuf, werr, ctxDone, rerr,
                         fileAtOpen, wlogAtOpen, batchAtOpen,
                         acquired>>
    /\ UNCHANGED <<session, file>>
    /\ UNCHANGED <<otherVars, mu, batch, hpc, tmp, flushVars, data, outcomeVars,
                   lockOrder, sinceFlush>>

\* the timeout of Maxwaittime*time.Minute fires: cctx is done
DeadlineExpires ==
    /\ cpc = "receive"
    /\ ~ctxDone
    /\ ctxDone' = TRUE
    /\ UNCHANGED <<cpc, ret, session, rerr, fileOpen, closes,
                   fileAtOpen, wlogAtOpen, batchAtOpen, acquired>>
    /\ UNCHANGED <<otherVars, sinkVars, mu, batch, hpc, tmp, flushVars, data, outcomeVars,
                   lockOrder, sinceFlush>>

\* the pub/sub service fails with an error Receive does not retry
ReceiveError ==
    /\ cpc = "receive"
    /\ ~ctxDone
    /\ ~rerr
    /\ rerr' = TRUE
    /\ UNCHANGED <<cpc, ret, session, ctxDone, fileOpen, closes,
                   fileAtOpen, wlogAtOpen, batchAtOpen, acquired>>
    /\ UNCHANGED <<otherVars, sinkVars, mu, batch, hpc, tmp, flushVars, data, outcomeVars,
                   lockOrder, sinceFlush>>

\* mutant: Consume reports the deadline as a receive error
ReceiveResultAlwaysError(err) == "err_receive"

\* what Consume returns once Receive has returned err
ReceiveResult(err) == IF err THEN "err_receive" ELSE "nil"

\* mutant: Receive returns without waiting for the handler invocations
CallsNotAwaited == TRUE

\* all of the outstanding calls to the handler have returned
CallsReturned == \A d \in Deliveries : ~InFlight(d)

\* Receive returns: cctx is done or the service failed, and every handler
\* invocation it started has returned
ReceiveReturn ==
    /\ cpc = "receive"
    /\ ctxDone \/ rerr
    /\ CallsReturned
    /\ cpc' = "return"
    /\ ret' = ReceiveResult(rerr)
    /\ UNCHANGED <<session, ctxDone, rerr, fileOpen, closes,
                   fileAtOpen, wlogAtOpen, batchAtOpen, acquired>>
    /\ UNCHANGED <<otherVars, sinkVars, mu, batch, hpc, tmp, flushVars, data, outcomeVars,
                   lockOrder, sinceFlush>>

\* mutant: the defer statement is missing, the file is never closed
NeverClosed(n) == n

\* the number of Close calls on the session's file once the deferred
\* file.Close() has run, n being their number before
Closed(n) == n + 1

\* Consume returns: the deferred cancel() and file.Close() run
Deferred ==
    /\ cpc = "return"
    /\ cpc' = "done"
    /\ ctxDone' = TRUE
    /\ fileOpen' = FALSE
    /\ closes' = closes + 1
    /\ acquired' = [acquired EXCEPT !.closes = Closed(@)]
    /\ UNCHANGED <<ret, session, rerr, fileAtOpen, wlogAtOpen, batchAtOpen>>
    /\ UNCHANGED <<otherVars, sinkVars, mu, batch, hpc, tmp, flushVars, data, outcomeVars,
                   lockOrder, sinceFlush>>

\* ------------------------------------------------------------ bufio.Writer
\* gcpinfo.writer.WriteString(s): the states the writer and the file may be left
\* in.  With the sticky error set the call fails at once.  Otherwise s is copied
\* into the buffer; when the buffer overflows the buffered bytes are written to
\* the file first, and if that write fails (or the file is closed) the error
\* sticks and the call fails.
WriteStringOutcomes(s) ==
    IF werr
    THEN {[err |-> TRUE, buf |-> wbuf, file |-> file, werr |-> TRUE]}
    ELSE {[err |-> FALSE, buf |-> wbuf \o s, file |-> file, werr |-> FALSE],
          [err |-> TRUE, buf |-> wbuf, file |-> file, werr |-> TRUE]}
         \cup (IF fileOpen /\ wbuf # <<>>
               THEN {[err |-> FALSE, buf |-> s, file |-> file \o wbuf, werr |-> FALSE]}
               ELSE {})

\* gcpinfo.writer.Flush(): fails at once with the sticky error set, does nothing
\* with an empty buffer, else writes the buffered bytes to the file or fails
FlushOutcomes ==
    IF werr
    THEN {[err |-> TRUE, buf |-> wbuf, file |-> file, werr |-> TRUE]}
    ELSE IF wbuf = <<>>
    THEN {[err |-> FALSE, buf |-> wbuf, file |-> file, werr |-> FALSE]}
    ELSE {[err |-> TRUE, buf |-> wbuf, file |-> file, werr |-> TRUE]}
         \cup (IF fileOpen
               THEN {[err |-> FALSE, buf |-> <<>>, file |-> file \o wbuf, werr |-> FALSE]}
               ELSE {})

\* ------------------------------------------------------- the receive handler
\* Receive invokes the handler for a delivered message on a goroutine of its
\* own.  Deliveries are numbered in the order Receive starts their handlers.
Deliver(d) ==
    /\ cpc = "receive"
    /\ ~ctxDone
    /\ ~rerr
    /\ hpc[d] = "none"
    /\ d = 1 \/ hpc[d - 1] # "none"
    /\ hpc' = [hpc EXCEPT ![d] = "lock"]
    /\ data' = [data EXCEPT ![d] = PayloadOf(d)]
    /\ UNCHANGED <<otherVars, consumeVars, sinkVars, mu, batch, tmp, flushVars, outcomeVars,
                   lockOrder, sinceFlush>>

\* mutant: the handler takes the read lock (mu.RLock), which other readers share
MuFreeShared == TRUE

\* gcpinfo.mu.Lock() may return
MuFree == mu = 0

\* gcpinfo.mu.Lock()
Lock(d) ==
    /\ hpc[d] = "lock"
    /\ MuFree
    /\ mu' = d
    /\ hpc' = [hpc EXCEPT ![d] = "append_read"]
    /\ lockOrder' = Append(lockOrder, d)
    /\ UNCHANGED <<otherVars, consumeVars, sinkVars, batch, tmp, flushVars, data, outcomeVars,
                   sinceFlush>>

\* append(gcpinfo.batch, msg): the slice is read ...
AppendRead(d) ==
    /\ hpc[d] = "append_read"
    /\ tmp' = [tmp EXCEPT ![d] = batch]
    /\ hpc' = [hpc EXCEPT ![d] = "append_write"]
    /\ UNCHANGED <<otherVars, consumeVars, sinkVars, mu, batch, flushVars, data, outcomeVars,
                   lockOrder, sinceFlush>>

\* ... and gcpinfo.batch = the slice read, with msg after its last element
AppendWrite(d) ==
    /\ hpc[d] = "append_write"
    /\ batch' = Append(tmp[d], d)
    /\ sinceFlush' = sinceFlush + 1
    /\ hpc' = [hpc EXCEPT ![d] = "check"]
    /\ UNCHANGED <<otherVars, consumeVars, sinkVars, mu, tmp, flushVars, data, outcomeVars,
                   lockOrder>>

\* mutant: the flush is triggered one append later
ExceedsByTwo(n) == n > Threshold + 1

\* mutant: the comparison written >= instead of >
ExceedsOrEqual(n) == n >= Threshold

\* len(gcpinfo.batch) > int(gcpinfo.Worker.Batchsize)
Exceeds(n) == n > Threshold

\* mutant: the loop walks the batch from its last element to its first
RangeBackwards(b) == [k \in 1..Len(b) |-> b[Len(b) + 1 - k]]

\* the slice a range loop over b visits, in the order it visits it
RangeOf(b) == b

\* if len(gcpinfo.batch) > int(gcpinfo.Worker.Batchsize) { gcpinfo.Flush() }:
\* Flush starts by evaluating the range expression gcpinfo.batch
Check(d) ==
    /\ hpc[d] = "check"
    /\ IF Exceeds(Len(batch))
       THEN /\ hpc' = [hpc EXCEPT ![d] = "flush_write"]
            /\ rng' = [rng EXCEPT ![d] = RangeOf(batch)]
            /\ idx' = [idx EXCEPT ![d] = 1]
       ELSE /\ hpc' = [hpc EXCEPT ![d] = "unlock"]
            /\ UNCHANGED <<rng, idx>>
    /\ UNCHANGED <<otherVars, consumeVars, sinkVars, mu, batch, tmp, res, wflushes, data,
                   outcomeVars, lockOrder, sinceFlush>>

\* ---------------------------------------------------------------- Flush
\* _, err := gcpinfo.writer.WriteString(string(msg.Data) + "\n") for the
\* message the range loop is at
FlushWrite(t) ==
    /\ hpc[t] = "flush_write"
    /\ idx[t] <= Len(rng[t])
    /\ LET msg == rng[t][idx[t]] IN
       \E o \in WriteStringOutcomes(Line(msg)) :
          /\ wbuf' = o.buf
          /\ file' = o.file
          /\ werr' = o.werr
          /\ res' = [res EXCEPT ![t] = IF o.err THEN "fail" ELSE "ok"]
          /\ IF o.err
             THEN /\ wfail' = [wfail EXCEPT ![msg] = @ + 1]
                  /\ UNCHANGED <<wok, wlog>>
             ELSE /\ wok' = [wok EXCEPT ![msg] = @ + 1]
                  /\ wlog' = Append(wlog, msg)
                  /\ UNCHANGED wfail
    /\ hpc' = [hpc EXCEPT ![t] = "flush_outcome"]
    /\ UNCHANGED <<otherVars, consumeVars, mu, batch, tmp, rng, idx, wflushes, data, acks,
                   nacks, acklog, lockOrder, sinceFlush>>

\* mutant: the branches of the if swapped
OutcomeCallSwapped(r) == IF r = "fail" THEN "ack" ELSE "nack"

\* if err != nil { msg.Nack() } else { msg.Ack() }
OutcomeCall(r) == IF r = "fail" THEN "nack" ELSE "ack"

\* mutant: a failed write leaves the loop (break after Nack)
LoopBreakOnFail(i, n, r) == IF r = "fail" THEN n + 1 ELSE i + 1

\* where the range loop goes after the body ran for position i of n
LoopNext(i, n, r) == i + 1

FlushOutcome(t) ==
    /\ hpc[t] = "flush_outcome"
    /\ LET msg == rng[t][idx[t]] IN
       IF OutcomeCall(res[t]) = "nack"
       THEN /\ nacks' = [nacks EXCEPT ![msg] = @ + 1]
            /\ UNCHANGED <<acks, acklog>>
       ELSE /\ acks' = [acks EXCEPT ![msg] = @ + 1]
            /\ acklog' = Append(acklog, msg)
            /\ nacks' = nacks
    /\ idx' = [idx EXCEPT ![t] = LoopNext(idx[t], Len(rng[t]), res[t])]
    /\ hpc' = [hpc EXCEPT ![t] = "flush_write"]
    /\ UNCHANGED <<otherVars, consumeVars, sinkVars, mu, batch, tmp, rng, res, wflushes, data,
                   wok, wfail, wlog, lockOrder, sinceFlush>>

\* mutant: Flush leaves the written lines in the writer's buffer
NeverFlushesWriter(b) == FALSE

\* mutant: Flush returns early when the batch is empty
FlushesWriterUnlessEmpty(b) == b # <<>>

\* Flush calls gcpinfo.writer.Flush() after the loop over b, whatever b held
FlushesWriter(b) == TRUE

\* mutant: the loop is left before the body has run for the last message
LoopOverEarly(i, n) == i >= n

\* the range loop over n messages, at position i, has visited them all
LoopOver(i, n) == i > n

\* after the loop: gcpinfo.writer.Flush(), its error dropped
FlushWriter(t) ==
    /\ hpc[t] = "flush_write"
    /\ LoopOver(idx[t], Len(rng[t]))
    /\ IF FlushesWriter(rng[t])
       THEN /\ \E o \in FlushOutcomes :
                  /\ wbuf' = o.buf
                  /\ file' = o.file
                  /\ werr' = o.werr
            /\ wflushes' = [wflushes EXCEPT ![t] = @ + 1]
       ELSE UNCHANGED <<sinkVars, wflushes>>
    /\ hpc' = [hpc EXCEPT ![t] = "flush_reset"]
    /\ UNCHANGED <<otherVars, consumeVars, mu, batch, tmp, rng, idx, res, data, outcomeVars,
                   lockOrder, sinceFlush>>

\* mutant: the rejected messages stay in the batch for another try
KeepRejected(old) == SelectSeq(old, LAMBDA m : nacks[m] > 0)

\* the batch Flush leaves: make([]*pubsub.Message, 0, int(Batchsize))
EmptyBatch(old) == <<>>

\* gcpinfo.batch = make(...), and Flush returns
FlushReset(t) ==
    /\ hpc[t] = "flush_reset"
    /\ batch' = EmptyBatch(rng[t])
    /\ sinceFlush' = 0
    /\ hpc' = [hpc EXCEPT ![t] = IF t = 0 THEN "returned" ELSE "unlock"]
    /\ UNCHANGED <<otherVars, consumeVars, sinkVars, mu, tmp, flushVars, data, outcomeVars,
                   lockOrder>>

\* mutant: the handler returns without gcpinfo.mu.Unlock()
NotReleased(d) == d

\* gcpinfo.mu once the handler of d has called gcpinfo.mu.Unlock(): free
Released(d) == 0

\* gcpinfo.mu.Unlock(), and the handler returns: its locals are gone
Unlock(d) ==
    /\ hpc[d] = "unlock"
    /\ mu' = Released(d)
    /\ hpc' = [hpc EXCEPT ![d] = "done"]
    /\ tmp' = [tmp EXCEPT ![d] = <<>>]
    /\ rng' = [rng EXCEPT ![d] = <<>>]
    /\ idx' = [idx EXCEPT ![d] = 0]
    /\ res' = [res EXCEPT ![d] = "ok"]
    /\ UNCHANGED <<otherVars, consumeVars, sinkVars, batch, wflushes, data, outcomeVars,
                   lockOrder, sinceFlush>>

\* ------------------------------------------------------ a direct Flush call
\* Flush is exported: the goroutine that called Consume calls gcpinfo.Flush()
\* after its last Consume returned (the writer exists once a session has opened
\* the file).  The call is recorded with the state it started from.
CallFlush ==
    /\ cpc = "done"
    /\ closes > 0
    /\ hpc[0] \in {"none", "returned"}
    /\ Len(pre) < MaxDirectCalls
    /\ hpc' = [hpc EXCEPT ![0] = "flush_write"]
    /\ rng' = [rng EXCEPT ![0] = RangeOf(batch)]
    /\ idx' = [idx EXCEPT ![0] = 1]
    /\ pre' = Append(pre, [batch |-> batch, acks |-> acks, nacks |-> nacks, wok |-> wok,
                           wfail |-> wfail, file |-> file, wbuf |-> wbuf,
                           wflushes |-> wflushes[0]])
    /\ UNCHANGED <<config, Batchsize, Maxwaittime, consumeVars, sinkVars, mu, batch, tmp, res,
                   wflushes, data, outcomeVars, lockOrder, sinceFlush>>

\* ---------------------------------------------------------------- Spec
\* a step of the handler invocation of d after Receive started it
HandlerStep(d) ==
    \/ Lock(d)
    \/ AppendRead(d)
    \/ AppendWrite(d)
    \/ Check(d)
    \/ FlushWrite(d)
    \/ FlushOutcome(d)
    \/ FlushWriter(d)
    \/ FlushReset(d)
    \/ Unlock(d)

Handler(d) ==
    \/ Deliver(d)
    \/ HandlerStep(d)

Next ==
    \/ ConsumeCall
    \/ NewClient
    \/ OpenFile
    \/ DeadlineExpires
    \/ ReceiveError
    \/ ReceiveReturn
    \/ Deferred
    \/ \E d \in Deliveries : Handler(d)

Spec == Init /\ [][Next]_vars

\* Scheduling: the timer of cctx fires, Receive returns once it may, Consume's
\* return runs its deferred calls, and the Go scheduler does not leave the
\* handler goroutines idle while one of them can take a step.  Deliveries,
\* service errors and the caller's calls are under no obligation to happen.
Fairness ==
    /\ WF_vars(DeadlineExpires)
    /\ WF_vars(ReceiveReturn)
    /\ WF_vars(Deferred)
    /\ WF_vars(\E d \in Deliveries : HandlerStep(d))

FairSpec == Init /\ [][Next]_vars /\ Fairness

\* the program with a caller that also calls Flush itself after its sessions
NextFlush ==
    \/ Next
    \/ CallFlush
    \/ FlushWrite(0)
    \/ FlushOutcome(0)
    \/ FlushWriter(0)
    \/ FlushReset(0)

FlushSpec == Init /\ [][NextFlush]_vars

\* ---------------------------------------------------------------- helpers
\* number of times d occurs in the sequence q
Count(q, d) == Cardinality({k \in 1..Len(q) : q[k] = d})

\* the bytes of the lines of the deliveries of q, in order
RECURSIVE Lines(_)
Lines(q) == IF q = <<>> THEN <<>> ELSE data[Head(q)] \o <<"\n">> \o Lines(Tail(q))

\* the handler of d has stored its append
Appended(d) == hpc[d] \in {"check", "flush_write", "flush_outcome", "flush_reset",
                           "unlock", "done"}

\* t is in Flush, between the WriteString for m and the Ack or Nack that follows
OutcomePending(m) == \E t \in Threads : hpc[t] = "flush_outcome" /\ rng[t][idx[t]] = m

\* ---------------------------------------------------------------- C1
\* C1: every message a Flush has iterated over got exactly one outcome call in
\* it: Ack once and Nack never when its WriteString succeeded, Nack once and Ack
\* never when it failed; between the write and the call neither was made yet.
C1_AckIffWritten ==
    /\ \A m \in Deliveries :
          /\ wok[m] + wfail[m] <= 1
          /\ IF OutcomePending(m)
             THEN acks[m] = 0 /\ nacks[m] = 0 /\ wok[m] + wfail[m] = 1
             ELSE acks[m] = wok[m] /\ nacks[m] = wfail[m]
    /\ \A t \in Threads :
          hpc[t] \in InFlush =>
             \A k \in 1..Len(rng[t]) :
                k < idx[t] => acks[rng[t][k]] + nacks[rng[t][k]] = 1

\* a Flush has finished its loop over a batch in which one write succeeded and
\* another failed
C1_Witness ==
    \E t \in Deliveries :
       /\ hpc[t] = "flush_reset"
       /\ \E a, b \in 1..Len(rng[t]) :
             /\ wok[rng[t][a]] = 1 /\ acks[rng[t][a]] = 1
             /\ wfail[rng[t][b]] = 1 /\ nacks[rng[t][b]] = 1

\* ---------------------------------------------------------------- C2
\* C2: when a session has ended, every message its handler appended to the
\* batch has exactly one of Ack and Nack.
C2_EveryAppendedMessageSettled ==
    cpc = "done" =>
       \A d \in Deliveries : Appended(d) => acks[d] + nacks[d] = 1

\* the part of C2 the code keeps: no message is both acknowledged and rejected
C2_NeverBoth ==
    \A d \in Deliveries : acks[d] + nacks[d] <= 1

\* ---------------------------------------------------------------- C3
\* C3: the handler calls Flush exactly when its append is the (T+1)-th since the
\* previous flush, T = int(Batchsize): a handler inside Flush has T+1 appends
\* behind it and iterates over T+1 messages, a handler that reaches Unlock
\* without a flush has at most T, and after a flush the batch is empty.
C3_FlushOnEveryTPlusFirst ==
    \A d \in Deliveries :
       /\ hpc[d] \in {"flush_write", "flush_outcome"} =>
             sinceFlush = Threshold + 1 /\ Len(rng[d]) = Threshold + 1
       /\ hpc[d] = "flush_reset" => sinceFlush = Threshold + 1
       /\ hpc[d] = "unlock" =>
             IF wflushes[d] = 0
             THEN sinceFlush \in 1..Threshold /\ Len(batch) = sinceFlush
             ELSE sinceFlush = 0 /\ Len(batch) = 0

\* T = 2: the third delivery flushed a batch of three, and the two before it
\* returned without a flush
C3_Witness ==
    /\ Threshold = 2
    /\ \E d \in Deliveries :
          /\ hpc[d] = "unlock"
          /\ wflushes[d] = 1
          /\ Len(rng[d]) = 3
          /\ \A e \in Deliveries : e \in {rng[d][1], rng[d][2]} =>
                hpc[e] = "done" /\ wflushes[e] = 0

\* ---------------------------------------------------------------- C4
\* C4: payloads are written in the order their messages were appended: the
\* deliveries whose WriteString succeeded, in write order, are the written ones
\* among the handlers in the order they acquired mu, and the bytes this
\* session's writer accepted (in the file or still buffered) are their payloads
\* in that order, each followed by one "\n".
C4_WrittenInAppendOrder ==
    /\ wlog = SelectSeq(lockOrder, LAMBDA d : wok[d] > 0)
    /\ file \o wbuf = fileAtOpen \o Lines(SubSeq(wlog, wlogAtOpen + 1, Len(wlog)))

\* three messages appended in the order m1, m2, m3 are three lines of the file
C4_Witness ==
    /\ Len(wlog) = 3
    /\ wlogAtOpen = 0
    /\ pre = <<>>
    /\ wbuf = <<>>
    /\ file = data[lockOrder[1]] \o <<"\n">> \o data[lockOrder[2]] \o <<"\n">>
                 \o data[lockOrder[3]] \o <<"\n">>
    /\ lockOrder[1] # 1

\* ---------------------------------------------------------------- C5
\* C5: at most one handler invocation is between mu.Lock and mu.Unlock, and it
\* is the one that locked mu; so at most one Flush runs, and no append overlaps
\* a Flush or another append.
C5_MutualExclusion ==
    /\ Cardinality({d \in Deliveries : hpc[d] \in Critical}) <= 1
    /\ \A d \in Deliveries : hpc[d] \in Critical => mu = d
    /\ Cardinality({t \in Threads : hpc[t] \in InFlush}) <= 1

\* one invocation is inside Flush while two others wait for mu
C5_Witness ==
    \E d, e, f \in Deliveries :
       /\ hpc[d] = "flush_outcome"
       /\ e # f
       /\ hpc[e] = "lock"
       /\ hpc[f] = "lock"

\* ---------------------------------------------------------------- C6
\* C6: no append is lost or duplicated: a message whose append is stored is in
\* the batch exactly once and untouched, or was handled by exactly one Flush
\* (still in the batch only while that Flush runs); a message not yet appended
\* is nowhere; and with all invocations returned the batch size is their number
\* minus the messages the flushes took.
C6_NoLostOrDuplicatedAppend ==
    /\ \A d \in Deliveries :
          LET flushed == wok[d] + wfail[d] IN
          IF Appended(d)
          THEN /\ Count(batch, d) <= 1
               /\ flushed <= 1
               /\ Count(batch, d) = 0 => flushed = 1
               /\ Count(batch, d) = 1 /\ flushed = 1 =>
                     \E t \in Deliveries : hpc[t] \in InFlush /\ Count(rng[t], d) = 1
          ELSE Count(batch, d) = 0 /\ flushed = 0
    /\ (\A d \in Deliveries : ~InFlight(d)) =>
          Len(batch) = Cardinality({d \in Deliveries : hpc[d] = "done"})
                          - Cardinality({d \in Deliveries : wok[d] + wfail[d] > 0})

\* three invocations were in flight at once, all have returned, one flush took
\* two of the messages and the third is in the batch
C6_Witness ==
    /\ \A d \in Deliveries : ~InFlight(d)
    /\ Cardinality({d \in Deliveries : hpc[d] = "done"}) = 3
    /\ Cardinality({d \in Deliveries : wok[d] + wfail[d] = 1}) = 2
    /\ Len(batch) = 1
    /\ lockOrder[1] = 3

\* ---------------------------------------------------------------- C7
\* C7: a failed write makes Flush reject that message and go on: when the loop
\* is over every message of the batch it iterated has its one outcome, Nack for
\* a failed write and Ack for a successful one, and the session is still
\* receiving.
C7_FailureDoesNotAbort ==
    \A t \in Deliveries :
       hpc[t] = "flush_reset" =>
          /\ cpc = "receive"
          /\ ret = "none"
          /\ \A k \in 1..Len(rng[t]) :
                LET m == rng[t][k] IN
                /\ wok[m] + wfail[m] = 1
                /\ wfail[m] = 1 => nacks[m] = 1 /\ acks[m] = 0
                /\ wok[m] = 1 => acks[m] = 1 /\ nacks[m] = 0

\* the first write of a batch of two failed, and the second message was still
\* processed
C7_Witness ==
    \E t \in Deliveries :
       /\ hpc[t] = "flush_reset"
       /\ Len(rng[t]) = 2
       /\ wfail[rng[t][1]] = 1
       /\ nacks[rng[t][2]] = 1

\* ---------------------------------------------------------------- C8
\* C8: every Flush flushes the buffered writer once and then leaves the batch
\* empty, whatever failed: a handler that leaves Flush made exactly one
\* writer.Flush call and the batch is empty, rejected messages are not in the
\* batch once their Flush is over, and no message is written twice.
C8_FlushEndsEmpty ==
    /\ \A d \in Deliveries :
          /\ hpc[d] \in {"flush_write", "flush_outcome"} => wflushes[d] = 0
          /\ hpc[d] = "flush_reset" => wflushes[d] = 1
          /\ hpc[d] = "unlock" /\ wflushes[d] > 0 => wflushes[d] = 1 /\ batch = <<>>
          /\ wflushes[d] <= 1
    /\ \A m \in Deliveries :
          /\ wok[m] + wfail[m] <= 1
          /\ nacks[m] > 0 /\ Count(batch, m) > 0 =>
                \E t \in Deliveries : hpc[t] \in InFlush /\ Count(rng[t], m) = 1

\* a Flush is over in which a message was rejected and the writer's own flush
\* failed: the batch is empty
C8_Witness ==
    \E d \in Deliveries :
       /\ hpc[d] = "unlock"
       /\ wflushes[d] = 1
       /\ werr
       /\ wbuf # <<>>
       /\ \E m \in Deliveries : nacks[m] = 1 /\ Count(rng[d], m) = 1
       /\ batch = <<>>

\* ---------------------------------------------------------------- C9
\* C9: a Flush of an empty batch calls neither Ack nor Nack, writes nothing,
\* still flushes the buffered writer, and leaves the batch empty; and every
\* Flush leaves the batch empty, so a second Flush right after a first changes
\* nothing more.
C9_EmptyFlushIsNoOp ==
    hpc[0] = "returned" =>
       LET p == pre[Len(pre)] IN
       /\ batch = <<>>
       /\ wflushes[0] = p.wflushes + 1
       /\ p.batch = <<>> =>
             /\ acks = p.acks
             /\ nacks = p.nacks
             /\ wok = p.wok
             /\ wfail = p.wfail
             /\ file \o wbuf = p.file \o p.wbuf

\* the caller flushed a batch of two messages and then, at once, the empty batch
C9_Witness ==
    /\ hpc[0] = "returned"
    /\ Len(pre) = 2
    /\ Len(pre[1].batch) = 2
    /\ pre[2].batch = <<>>
    /\ pre[2].acks # pre[1].acks
    /\ wflushes[0] = 2

\* ---------------------------------------------------------------- C10
\* C10: a session that reached Active ends: from every state in which Receive
\* runs, Consume comes to have returned with every handler invocation finished,
\* and with nil unless the service reported a receive error.
C10_SessionTerminates ==
    (cpc = "receive") ~>
       (/\ cpc = "done"
        /\ \A d \in Deliveries : ~InFlight(d)
        /\ ~rerr => ret = "nil")

\* a first session in which at least two handler invocations ran was ended by
\* the deadline alone: Consume has returned nil and every invocation finished
C10_Witness ==
    /\ cpc = "done"
    /\ ret = "nil"
    /\ ~rerr
    /\ session = 1
    /\ Len(lockOrder) >= 2
    /\ \A d \in Deliveries : ~InFlight(d)

\* ---------------------------------------------------------------- C11
\* C11: the file a Consume call opened is closed exactly once when the call has
\* returned, whether Receive ended at the deadline or with an error; it is not
\* closed while Receive runs and never twice; a call whose client creation or
\* open failed makes no Close call.
C11_ClosedExactlyOnce ==
    /\ acquired.closes <= 1
    /\ ~acquired.file => acquired.closes = 0
    /\ acquired.file => (acquired.closes = 1 <=> cpc = "done")
    /\ cpc = "done" => acquired.file = (ret \in {"nil", "err_receive"})
    /\ fileOpen <=> cpc \in {"receive", "return"}

\* a second call on the GCPInfo opened the file and was ended by a receive
\* error: it has returned the error and closed its file once
C11_Witness ==
    /\ session = 2
    /\ cpc = "done"
    /\ ret = "err_receive"
    /\ acquired.file
    /\ acquired.closes = 1
    /\ ~fileOpen

\* ---------------------------------------------------------------- C12
\* C12: while the file is not open no handler invocation is running, and every
\* step that starts or advances a handler invocation, changes the batch,
\* writes to the writer or the file, or calls Ack or Nack is taken while
\* Receive runs with the file open, and leaves it open: the invocations in
\* flight at the deadline finish before the file is closed.
C12_NoHandlerAfterClose ==
    /\ [](~fileOpen => \A d \in Deliveries : ~InFlight(d))
    /\ [][(\/ hpc' # hpc
           \/ batch' # batch
           \/ file' # file
           \/ outcomeVars' # outcomeVars)
             => cpc = "receive" /\ fileOpen /\ fileOpen']_vars

\* the deadline has passed and an invocation that was in flight is inside its
\* Flush, between a write and its Ack, with the file still open
C12_Witness ==
    /\ cpc = "receive"
    /\ ctxDone
    /\ fileOpen
    /\ \E d \in Deliveries : hpc[d] = "flush_outcome" /\ res[d] = "ok"

\* ---------------------------------------------------------------- C13
\* C13: when pubsub.NewClient or os.OpenFile fails, Consume returns the error
\* without having run Receive: until it returns no handler invocation starts
\* and the batch, the file and the outcomes do not change; and once it has
\* returned, nothing the call acquired is open: neither the file nor the
\* client.
C13_FailedInitLeavesNothing ==
    /\ [](cpc = "done" /\ ret \in {"err_client", "err_open"} =>
             /\ ~fileOpen
             /\ ~acquired.file
             /\ ~acquired.client)
    /\ [][(cpc \in {"newclient", "openfile"}) /\ cpc' = "done" =>
             (/\ ret' \in {"err_client", "err_open"}
              /\ UNCHANGED <<batch, hpc, file, outcomeVars, fileOpen>>)]_vars

\* the part of C13 the code keeps: a call that fails before Receive returns an
\* error, opens no file and starts no handler, and a call whose client creation
\* failed holds no client
C13_NeverActive ==
    /\ cpc \in {"newclient", "openfile"} =>
          /\ ~fileOpen
          /\ \A d \in Deliveries : ~InFlight(d)
    /\ cpc = "done" /\ ret \in {"err_client", "err_open"} =>
          /\ ~fileOpen
          /\ ~acquired.file
          /\ acquired.closes = 0
          /\ ret = "err_client" => ~acquired.client

\* ---------------------------------------------------------------- C14
\* C14: the end of a session flushes nothing.  Once Receive has returned, at
\* the deadline or with an error, the batch holds at most T messages, none of
\* them has an Ack, a Nack or a write, their payloads are not among the bytes
\* the writer accepted, and Consume returns the receive error if there was one
\* and nil otherwise; the steps from Receive's return to Consume's return leave
\* the batch, the outcomes, the file and the writer as they are.
C14_NoFinalFlush ==
    /\ [](cpc = "return" \/ (cpc = "done" /\ ret \in {"nil", "err_receive"}) =>
             /\ Len(batch) <= Threshold
             /\ \A k \in 1..Len(batch) :
                   LET m == batch[k] IN
                   /\ acks[m] = 0 /\ nacks[m] = 0
                   /\ wok[m] = 0 /\ wfail[m] = 0
                   /\ Count(wlog, m) = 0
             /\ file \o wbuf = fileAtOpen \o Lines(SubSeq(wlog, wlogAtOpen + 1, Len(wlog)))
             /\ ret = (IF rerr THEN "err_receive" ELSE "nil"))
    /\ [][(cpc \in {"receive", "return"}) /\ cpc' # cpc =>
             UNCHANGED <<batch, outcomeVars, sinkVars, wflushes>>]_vars

\* T = 1: a flush took the first two messages, the third was appended, and a
\* receive error ended the session: Consume has returned the error and the
\* third message is in the batch with no outcome
C14_Witness ==
    /\ cpc = "done"
    /\ ret = "err_receive"
    /\ Threshold = 1
    /\ Len(wlog) = 2
    /\ Len(batch) = 1
    /\ acks[batch[1]] + nacks[batch[1]] = 0

\* ---------------------------------------------------------------- C15
\* C15: the batch size NewGCPclient leaves is 3 when the config gives none or 0
\* and the configured value otherwise, and for every batch length n the handler
\* can compare (n >= 1, it compares after its append) "n > int(Batchsize)" is
\* "n is greater than that value"; Maxwaittime, the number of minutes of the
\* session's timeout, is 10 when the config gives none or 0 and the configured
\* number otherwise; and no step changes either.
C15_Defaults ==
    /\ [](LET size == IF config.batchsize = 0 THEN Float(3) ELSE config.batchsize
              minutes == IF config.maxwaitmin = 0 THEN 10 ELSE config.maxwaitmin
          IN  /\ Batchsize = size
              /\ \A n \in 1..(MaxDeliveries + 1) : Exceeds(n) <=> Float(n) > size
              /\ Maxwaittime = minutes)
    /\ [][Threshold' = Threshold /\ Maxwaittime' = Maxwaittime]_vars

\* no batchsize and no maxwaitmin in the config: Maxwaittime is 10, and a
\* handler has compared a batch of three with the threshold and not flushed
C15_Witness ==
    /\ config.batchsize = 0
    /\ config.maxwaitmin = 0
    /\ Maxwaittime = 10
    /\ Len(batch) = 3
    /\ \E d \in Deliveries : hpc[d] = "unlock" /\ wflushes[d] = 0

\* ---------------------------------------------------------------- C16
\* C16: the batch is empty when a session starts, so the handler invocation
\* whose append is the first of the session sees a batch of its message alone;
\* and a message an earlier session on the same GCPInfo left in the batch gets
\* no write, no Ack and no Nack later.
C16_BatchPerSession ==
    /\ cpc \in {"receive", "return"} => batchAtOpen = <<>>
    /\ \A d \in Deliveries :
          hpc[d] = "check" /\ batch = Append(batchAtOpen, d) => batch = <<d>>
    /\ \A k \in 1..Len(batchAtOpen) :
          LET m == batchAtOpen[k] IN
          /\ wok[m] = 0 /\ wfail[m] = 0
          /\ acks[m] = 0 /\ nacks[m] = 0

\* the part of C16 the code keeps: the first session on a GCPInfo starts with
\* the empty batch NewGCPclient made
C16_FirstSessionStartsEmpty ==
    session <= 1 => batchAtOpen = <<>>

\* ---------------------------------------------------------------- C17
\* C17: T = int(Batchsize) is not negative; the batch never holds more than
\* T+1 messages; it holds T+1 only while the handler that appended the last of
\* them holds mu and is between its append and the end of the Flush the append
\* triggered; and whenever mu is free it holds between 0 and T.
C17_BatchBound ==
    /\ Threshold >= 0
    /\ Len(batch) <= Threshold + 1
    /\ Len(batch) = Threshold + 1 =>
          \E d \in Deliveries :
             /\ mu = d
             /\ hpc[d] \in {"check", "flush_write", "flush_outcome", "flush_reset"}
             /\ batch[Len(batch)] = d
    /\ mu = 0 => Len(batch) \in 0..Threshold

\* T = 2: the batch holds three messages while the handler of the third is
\* inside the Flush it triggered
C17_Witness ==
    /\ Threshold = 2
    /\ Len(batch) = 3
    /\ \E d \in Deliveries : mu = d /\ hpc[d] = "flush_outcome" /\ idx[d] = 2

\* ---------------------------------------------------------------- C18
\* C18: in a Flush every Ack and Nack comes before gcpinfo.writer.Flush(): once
\* a handler has made that call every message of the batch it iterated has its
\* outcome, and an Ack or Nack is only ever made by a handler that has not made
\* it yet; the call itself, succeed or fail, changes no message's write result,
\* Ack or Nack and is not reported: Receive goes on and what Consume returns is
\* unchanged.
C18_OutcomeBeforeWriterFlush ==
    /\ [](\A t \in Deliveries :
             hpc[t] = "flush_reset" \/ (hpc[t] = "unlock" /\ wflushes[t] > 0) =>
                \A k \in 1..Len(rng[t]) :
                   LET m == rng[t][k] IN
                   /\ acks[m] + nacks[m] = 1
                   /\ acks[m] = wok[m]
                   /\ nacks[m] = wfail[m])
    /\ [][(acks' # acks \/ nacks' # nacks) =>
             \E t \in Deliveries :
                hpc[t] = "flush_outcome" /\ wflushes[t] = 0 /\ wflushes'[t] = 0]_vars
    /\ [][(wflushes' # wflushes) =>
             UNCHANGED <<acks, nacks, wok, wfail, wlog, cpc, ret, rerr, ctxDone>>]_vars

\* every write of a Flush succeeded and every message of its batch was acked,
\* then gcpinfo.writer.Flush() failed: the payloads are in the writer's buffer,
\* the writer's error is set, and the file has received nothing
C18_Witness ==
    \E t \in Deliveries :
       /\ hpc[t] = "flush_reset"
       /\ Len(rng[t]) >= 2
       /\ \A k \in 1..Len(rng[t]) : acks[rng[t][k]] = 1
       /\ werr
       /\ wbuf = Lines(rng[t])
       /\ file = <<>>

\* ---------------------------------------------------------------- C19
\* C19: a handler invocation is between its Lock and its Unlock exactly while
\* it holds mu, so one that has returned has released it; once Receive runs,
\* every step that reads or changes the batch or writes to the writer is a step
\* of the one invocation that holds mu; and under fair scheduling every
\* invocation that waits for mu acquires it and every one that holds it
\* releases it, whether or not a Flush was triggered or a write failed on the
\* way: again and again a state comes in which none waits and none holds (an
\* invocation that waits keeps waiting until it has acquired mu, and one that
\* holds it keeps holding until it has released it).
C19_GuardedAndReleased ==
    /\ [](\A d \in Deliveries : hpc[d] \in Critical <=> mu = d)
    /\ [][(cpc # "openfile"
            /\ (batch' # batch \/ tmp' # tmp \/ rng' # rng \/ sinkVars' # sinkVars)) =>
             \E d \in Deliveries :
                /\ mu = d
                /\ hpc[d] \in Critical
                /\ hpc'[d] # hpc[d]
                /\ \A e \in Deliveries : e # d => hpc'[e] = hpc[e]]_vars
    /\ []<>(\A d \in Deliveries : hpc[d] # "lock" /\ mu # d)

\* T = 0: an invocation whose Flush had a failed write has returned, and an
\* invocation that waited for mu meanwhile has acquired it
C19_Witness ==
    /\ Len(lockOrder) >= 2
    /\ \E d, e \in Deliveries :
          /\ lockOrder[Len(lockOrder)] = d
          /\ mu = d
          /\ hpc[d] = "append_read"
          /\ hpc[e] = "done"
          /\ wflushes[e] = 1
          /\ nacks[e] = 1
          /\ e > d

\* ---------------------------------------------------------------- C20
\* C20: as long as no write and no flush of the session's writer has failed,
\* whenever mu is free (so also when Consume closes the file) the writer's
\* buffer is empty and the bytes the file has received since the session
\* opened it are the lines, payload and "\n", of the messages acked since then,
\* in the order of their Acks, which is the order of their writes; a message is
\* acked at most once, and no message in the batch is among them.
C20_FileIsAckedLines ==
    mu = 0 /\ ~werr =>
       /\ wbuf = <<>>
       /\ acklog = wlog
       /\ file = fileAtOpen \o Lines(SubSeq(acklog, wlogAtOpen + 1, Len(acklog)))
       /\ \A m \in Deliveries : Count(acklog, m) = acks[m] /\ acks[m] <= 1
       /\ \A k \in 1..Len(batch) : Count(acklog, batch[k]) = 0

\* T = 1, no failure: the file has been closed with the lines of the first two
\* messages, in the order they were acked, and the third is in the batch
C20_Witness ==
    /\ cpc = "done"
    /\ mu = 0
    /\ ~werr
    /\ Threshold = 1
    /\ Len(acklog) = 2
    /\ acklog[1] = 2
    /\ file = Line(2) \o Line(1)
    /\ Len(batch) = 1

====
